---- MODULE Spec2Model ----
(***************************************************************************)
(* Model of the tool record store of src/main.py: the schema normalizer,   *)
(* the file-backed store (tolerant read, locked temp-file write, atomic    *)
(* rename) and the request handlers that read and mutate it, run by        *)
(* concurrent worker processes.                                            *)
(***************************************************************************)
EXTENDS Integers, Sequences, FiniteSets, TLC

(***************************************************************************)
(* Python / JSON values.  Every value has the same four fields so that any  *)
(* two values can be compared: t is the type tag, i the payload of an int   *)
(* or bool, s the characters of a str, l the elements of a list of str.     *)
(* A str is a sequence of one-character strings.                            *)
(***************************************************************************)
PyNone == [t |-> "none", i |-> 0, s |-> <<>>, l |-> <<>>]

PyBool(b) == [t |-> "bool", i |-> IF b THEN 1 ELSE 0, s |-> <<>>, l |-> <<>>]

PyInt(n) == [t |-> "int", i |-> n, s |-> <<>>, l |-> <<>>]

PyStr(chars) == [t |-> "str", i |-> 0, s |-> chars, l |-> <<>>]

PyList(elems) == [t |-> "list", i |-> 0, s |-> <<>>, l |-> elems]

\* Python truthiness, as used by `or` and bool().
Truthy(v) ==
    CASE v.t = "none" -> FALSE
      [] v.t = "bool" -> v.i = 1
      [] v.t = "int"  -> v.i # 0
      [] v.t = "str"  -> Len(v.s) > 0
      [] v.t = "list" -> Len(v.l) > 0

\* a or b
PyOr(a, b) == IF Truthy(a) THEN a ELSE b

\* dict.get(key) with the default None; a dict is a function from its keys.
Get(raw, key) == IF key \in DOMAIN raw THEN raw[key] ELSE PyNone

\* dict.get(key, default)
GetDefault(raw, key, default) == IF key \in DOMAIN raw THEN raw[key] ELSE default

EmptyDict == [k \in {} |-> PyNone]

\* {**a, **b}
DictMerge(a, b) ==
    [k \in (DOMAIN a) \cup (DOMAIN b) |-> IF k \in DOMAIN b THEN b[k] ELSE a[k]]

Whitespace == {" ", "\t"}

Digits == <<"0", "1", "2", "3", "4", "5", "6", "7", "8", "9">>

IsDigit(c) == \E d \in 1..Len(Digits) : Digits[d] = c

DigitValue(c) == (CHOOSE d \in 1..Len(Digits) : Digits[d] = c) - 1

RECURSIVE LStrip(_)
LStrip(chars) ==
    IF chars # <<>> /\ Head(chars) \in Whitespace THEN LStrip(Tail(chars)) ELSE chars

RECURSIVE RStrip(_)
RStrip(chars) ==
    IF chars # <<>> /\ chars[Len(chars)] \in Whitespace
    THEN RStrip(SubSeq(chars, 1, Len(chars) - 1))
    ELSE chars

\* str.strip()
Strip(chars) == RStrip(LStrip(chars))

\* str.lower() on the letters the model uses.
LowerChar(c) ==
    CASE c = "A" -> "a" [] c = "E" -> "e" [] c = "F" -> "f" [] c = "L" -> "l"
      [] c = "N" -> "n" [] c = "O" -> "o" [] c = "R" -> "r" [] c = "S" -> "s"
      [] c = "T" -> "t" [] c = "U" -> "u" [] c = "Y" -> "y" [] OTHER -> c

Lower(chars) == [k \in 1..Len(chars) |-> LowerChar(chars[k])]

\* str.split(","): the parts between commas, empty parts included.
RECURSIVE Split(_, _)
Split(chars, cur) ==
    IF chars = <<>> THEN <<cur>>
    ELSE IF Head(chars) = "," THEN <<cur>> \o Split(Tail(chars), <<>>)
    ELSE Split(Tail(chars), Append(cur, Head(chars)))

RECURSIVE DigitsToNat(_, _)
DigitsToNat(chars, acc) ==
    IF chars = <<>> THEN acc
    ELSE DigitsToNat(Tail(chars), 10 * acc + DigitValue(Head(chars)))

AllDigits(chars) == chars # <<>> /\ \A k \in 1..Len(chars) : IsDigit(chars[k])

\* int(str): surrounding whitespace and one sign are accepted.
StrIsInt(chars) ==
    LET body == Strip(chars) IN
    IF body # <<>> /\ Head(body) \in {"-", "+"} THEN AllDigits(Tail(body))
    ELSE AllDigits(body)

StrToInt(chars) ==
    LET body == Strip(chars) IN
    IF Head(body) = "-" THEN 0 - DigitsToNat(Tail(body), 0)
    ELSE IF Head(body) = "+" THEN DigitsToNat(Tail(body), 0)
    ELSE DigitsToNat(body, 0)

RECURSIVE NatToDigits(_)
NatToDigits(n) ==
    IF n < 10 THEN <<Digits[n + 1]>>
    ELSE NatToDigits(n \div 10) \o <<Digits[(n % 10) + 1]>>

RECURSIVE ReprList(_)
ReprList(elems) ==
    IF elems = <<>> THEN <<>>
    ELSE <<"'">> \o Head(elems) \o <<"'">>
         \o (IF Len(elems) > 1 THEN <<",", " ">> ELSE <<>>)
         \o ReprList(Tail(elems))

\* str(value)
Str(v) ==
    CASE v.t = "str"  -> v.s
      [] v.t = "int"  -> IF v.i < 0 THEN <<"-">> \o NatToDigits(0 - v.i)
                         ELSE NatToDigits(v.i)
      [] v.t = "bool" -> IF v.i = 1 THEN <<"T", "r", "u", "e">>
                         ELSE <<"F", "a", "l", "s", "e">>
      [] v.t = "none" -> <<"N", "o", "n", "e">>
      [] v.t = "list" -> <<"[">> \o ReprList(v.l) \o <<"]">>

\* int(value) raises ValueError or TypeError on these values.
IntRaises(v) ==
    CASE v.t = "str"  -> ~StrIsInt(v.s)
      [] v.t = "list" -> TRUE
      [] v.t = "none" -> TRUE
      [] OTHER        -> FALSE

\* int(value), where it does not raise.
Int_(v) ==
    CASE v.t = "str" -> StrToInt(v.s)
      [] OTHER       -> v.i

RECURSIVE StripAll(_)
StripAll(elems) ==
    IF elems = <<>> THEN <<>>
    ELSE (IF Strip(Head(elems)) # <<>> THEN <<Strip(Head(elems))>> ELSE <<>>)
         \o StripAll(Tail(elems))

_coerce_str_list(value) ==
    CASE value.t = "list" -> StripAll(value.l)
      [] value.t = "str"  -> StripAll(Split(value.s, <<>>))
      [] OTHER            -> <<>>

TrueWords ==
    { <<"t", "r", "u", "e">>, <<"1">>, <<"y", "e", "s">>, <<"y">>, <<"o", "n">> }

FalseWords ==
    { <<"f", "a", "l", "s", "e">>, <<"0">>, <<"n", "o">>, <<"n">>, <<"o", "f", "f">> }

_coerce_bool(value, default) ==
    CASE value.t = "none" -> default
      [] value.t = "bool" -> value.i = 1
      [] value.t = "str" /\ Lower(Strip(value.s)) \in TrueWords  -> TRUE
      [] value.t = "str" /\ Lower(Strip(value.s)) \in FalseWords -> FALSE
      [] OTHER -> Truthy(value)

\* Variant: the field is read under its legacy name only.
AliasField(raw, key, alias) ==
    PyStr(Strip(Str(PyOr(Get(raw, alias), PyStr(<<>>)))))

\* str(raw.get(key) or raw.get(alias) or "").strip()
StrField(raw, key, alias) ==
    PyStr(Strip(Str(PyOr(PyOr(Get(raw, key), Get(raw, alias)), PyStr(<<>>)))))

\* _coerce_str_list(raw.get(key) or raw.get(alias) or [])
ListField(raw, key, alias) ==
    PyList(_coerce_str_list(PyOr(PyOr(Get(raw, key), Get(raw, alias)), PyList(<<>>))))

\* raw.get("id", 0) or 0, the argument of int() in normalize_tool.
IdArg(raw) == PyOr(GetDefault(raw, "id", PyInt(0)), PyInt(0))

\* normalize_tool(raw) raises instead of returning.
normalize_raises(raw) == IntRaises(IdArg(raw))

normalize_tool(raw) ==
    [ id          |-> PyInt(Int_(IdArg(raw))),
      name        |-> StrField(raw, "name", "title"),
      description |-> StrField(raw, "description", "short_desc"),
      category    |-> StrField(raw, "category", "type"),
      pricing     |-> StrField(raw, "pricing", "cost"),
      tags        |-> ListField(raw, "tags", "keywords"),
      features    |-> ListField(raw, "features", "capabilities"),
      website     |-> StrField(raw, "website", "url"),
      published   |-> PyBool(_coerce_bool(Get(raw, "published"), TRUE)) ]

(***************************************************************************)
(* The files.  A file's content is its decoded shape: kind "absent" (no     *)
(* such file), "malformed" (not a JSON document, an empty or half-written   *)
(* file included), "notlist" (a JSON document whose top level is no list)   *)
(* or "list", whose items are dicts (isdict) or other JSON values; kind     *)
(* "undecodable" is a file whose bytes are not UTF-8 text.                  *)
(***************************************************************************)
Absent == [kind |-> "absent", items |-> <<>>]

Malformed == [kind |-> "malformed", items |-> <<>>]

Undecodable == [kind |-> "undecodable", items |-> <<>>]

NotList == [kind |-> "notlist", items |-> <<>>]

DictItem(d) == [isdict |-> TRUE, d |-> d]

NonDictItem == [isdict |-> FALSE, d |-> EmptyDict]

\* json.dump of a list of dicts, as json.load decodes it again.
JsonList(dicts) ==
    [kind |-> "list", items |-> [k \in 1..Len(dicts) |-> DictItem(dicts[k])]]

\* read_tools_file() raises instead of returning: json.load's read of the text
\* file raises UnicodeDecodeError, which is neither a JSONDecodeError nor an
\* OSError, so neither except clause catches it.
read_raises(content) == content.kind = "undecodable"

read_tools_file(content) ==
    CASE content.kind = "absent"    -> <<>>
      [] content.kind = "malformed" -> <<>>
      [] content.kind = "notlist"   -> <<>>
      [] content.kind = "list"      -> content.items

RECURSIVE NormalizeDicts(_)
NormalizeDicts(items) ==
    IF items = <<>> THEN <<>>
    ELSE (IF Head(items).isdict THEN <<normalize_tool(Head(items).d)>> ELSE <<>>)
         \o NormalizeDicts(Tail(items))

load_tools(content) == NormalizeDicts(read_tools_file(content))

\* The list save_tools writes: normalized = [normalize_tool(tool) for tool in tools]
SaveNormalized(tools) == [k \in 1..Len(tools) |-> normalize_tool(tools[k])]

(***************************************************************************)
(* Request bodies.                                                         *)
(***************************************************************************)
ListKeys == {"tags", "features"}

CreateDefaults ==
    [ tags |-> PyList(<<>>), features |-> PyList(<<>>), published |-> PyBool(TRUE) ]

UpdateKeys ==
    {"name", "description", "category", "pricing", "tags", "features", "website",
     "published"}

\* The ensure_list validators: _coerce_str_list on tags and features.
EnsureList(fields, keepNone) ==
    [k \in DOMAIN fields |->
        IF k \in ListKeys /\ ~(keepNone /\ fields[k].t = "none")
        THEN PyList(_coerce_str_list(fields[k]))
        ELSE fields[k]]

\* ToolCreate(...).dict(): every field, the defaults filled in.
ToolCreate(fields) == EnsureList(DictMerge(CreateDefaults, fields), FALSE)

\* ToolUpdate(...).dict(exclude_unset=True): the supplied fields of the model only.
ToolUpdate(fields) ==
    EnsureList([k \in (DOMAIN fields) \cap UpdateKeys |-> fields[k]], TRUE)

Ids(tools) == {tools[k].id.i : k \in 1..Len(tools)}

Max(S) == CHOOSE m \in S : \A x \in S : x <= m

\* Variant: the next id taken from the number of records.
NextIdByCount(tools) == Len(tools) + 1

\* Variant: the maximum without the increment.
NextIdNoIncrement(tools) == IF tools = <<>> THEN 0 ELSE Max(Ids(tools))

\* max((existing["id"] for existing in tools), default=0) + 1
NextId(tools) == (IF tools = <<>> THEN 0 ELSE Max(Ids(tools))) + 1

\* admin_create_tool: the list handed to save_tools.
CreateTools(tools, body) ==
    Append(tools, DictMerge(ToolCreate(body), [id |-> PyInt(NextId(tools))]))

\* admin_update_tool: index of the first record with the id, 0 when there is none.
FindIndex(tools, tool_id) ==
    IF \E k \in 1..Len(tools) : tools[k].id.i = tool_id
    THEN CHOOSE k \in 1..Len(tools) :
            /\ tools[k].id.i = tool_id
            /\ \A j \in 1..(k - 1) : tools[j].id.i # tool_id
    ELSE 0

\* Variant: the update replaces the record instead of merging into it.
ReplacedTool(tool, body) == DictMerge([id |-> tool.id], ToolUpdate(body))

\* updated_tool = {**tool, **update_data}
UpdatedTool(tool, body) == DictMerge(tool, ToolUpdate(body))

UpdateTools(tools, tool_id, body) ==
    [tools EXCEPT ![FindIndex(tools, tool_id)] = UpdatedTool(@, body)]

RECURSIVE Remaining(_, _)
\* remaining = [tool for tool in tools if tool["id"] != tool_id]
Remaining(tools, tool_id) ==
    IF tools = <<>> THEN <<>>
    ELSE (IF Head(tools).id.i # tool_id THEN <<Head(tools)>> ELSE <<>>)
         \o Remaining(Tail(tools), tool_id)

\* Variant: no record is held back.
Unfiltered(tools) == tools

RECURSIVE Published(_)
\* get_published_tools: [tool for tool in load_tools() if tool.get("published", True)]
Published(tools) ==
    IF tools = <<>> THEN <<>>
    ELSE (IF Truthy(GetDefault(Head(tools), "published", PyBool(TRUE)))
          THEN <<Head(tools)>> ELSE <<>>)
         \o Published(Tail(tools))

(***************************************************************************)
(* The read queries.                                                       *)
(***************************************************************************)
\* sub in s, for two strings
Contains(sub, s) ==
    \E k \in 0..(Len(s) - Len(sub)) : SubSeq(s, k + 1, k + Len(sub)) = sub

NoQuery == [search |-> PyNone, category |-> PyNone, pricing |-> PyNone]

\* get_tools: the three filters, each applied when its query parameter is a
\* non-empty string.
get_tools_filter(tools, query) ==
    LET bySearch(tool) ==
            Truthy(query.search) =>
                \/ Contains(Lower(query.search.s), Lower(tool.name.s))
                \/ Contains(Lower(query.search.s), Lower(tool.description.s))
                \/ \E k \in 1..Len(tool.tags.l) :
                      Contains(Lower(query.search.s), Lower(tool.tags.l[k]))
        byCategory(tool) ==
            Truthy(query.category) => Lower(tool.category.s) = Lower(query.category.s)
        byPricing(tool) ==
            Truthy(query.pricing) => Contains(Lower(query.pricing.s), Lower(tool.pricing.s))
        keep(tool) == bySearch(tool) /\ byCategory(tool) /\ byPricing(tool)
    IN SelectSeq(tools, keep)

\* admin_get_tools with the published filter given:
\* [tool for tool in tools if tool.get("published", True) == published]
PublishedIs(tools, published) ==
    LET keep(tool) == GetDefault(tool, "published", PyBool(TRUE)) = published
    IN SelectSeq(tools, keep)

\* Variant: the lookup goes through every record, published or not.
LookupAny(tools, tool_id) ==
    IF FindIndex(tools, tool_id) = 0 THEN <<>>
    ELSE <<tools[FindIndex(tools, tool_id)]>>

\* get_tool: next((t for t in get_published_tools() if t["id"] == tool_id), None),
\* as a sequence of no or one record.
Lookup(tools, tool_id) ==
    IF FindIndex(Published(tools), tool_id) = 0 THEN <<>>
    ELSE <<Published(tools)[FindIndex(Published(tools), tool_id)]>>

\* ids.split(",")
IdParts(ids) == Split(ids, <<>>)

\* compare_tools up to its validation: the status code it raises, 0 when it
\* goes on to read the store.
compare_rejects(ids) ==
    IF \E k \in 1..Len(IdParts(ids)) : ~StrIsInt(Strip(IdParts(ids)[k])) THEN 400
    ELSE IF Len(IdParts(ids)) > 3 THEN 400
    ELSE 0

\* selected_tools = [tool for tool in get_published_tools() if tool["id"] in tool_ids]
Selected(tools, ids) ==
    LET tool_ids == {StrToInt(Strip(IdParts(ids)[k])) : k \in 1..Len(IdParts(ids))}
        keep(tool) == tool.id.i \in tool_ids
    IN SelectSeq(Published(tools), keep)

\* compare_tools as a function of the query string and the loaded collection.
compare_tools(ids, tools) ==
    IF compare_rejects(ids) # 0 THEN [code |-> compare_rejects(ids), out |-> <<>>]
    ELSE [code |-> 200, out |-> Selected(tools, ids)]

Compare == <<"c", "o", "m", "p", "a", "r", "e">>

\* The routes under GET /api/tools/, in the order their decorators register them.
PathRoutes == <<"get_tool", "compare_tools">>

\* The path of the route matches the last segment of the request's path: the
\* parameter {tool_id} matches any non-empty segment (its conversion to int comes
\* after the match), the literal path matches itself.
RouteMatches(route, segment) ==
    CASE route = "get_tool"      -> segment # <<>>
      [] route = "compare_tools" -> segment = Compare

\* The router hands the request to the first route, in registration order, whose
\* path matches; "none" when no route does.
Route(segment) ==
    IF \E k \in 1..Len(PathRoutes) : RouteMatches(PathRoutes[k], segment)
    THEN PathRoutes[CHOOSE k \in 1..Len(PathRoutes) :
                        /\ RouteMatches(PathRoutes[k], segment)
                        /\ \A j \in 1..(k - 1) : ~RouteMatches(PathRoutes[j], segment)]
    ELSE "none"

(***************************************************************************)
(* Bounds and inputs.                                                      *)
(***************************************************************************)
\* Requests served in one behaviour.
MaxRequests == 3

\* The worker processes; each serves one request at a time (the handlers are
\* coroutines without an await, so one process runs a handler to its end).  A
\* request goes to the lowest idle worker (the workers are interchangeable).
Workers == {1, 2}

Free == 0

BodyA ==
    [ name        |-> PyStr(<<" ", "a">>),
      description |-> PyStr(<<>>),
      category    |-> PyStr(<<"N">>),
      pricing     |-> PyStr(<<"f", "r", "e", "e">>),
      tags        |-> PyStr(<<"x", ",", " ", "y">>),
      website     |-> PyStr(<<"w">>) ]

CreateBodies == {BodyA}

PatchPricing == [pricing |-> PyStr(<<"p", "a", "i", "d">>)]

PatchName ==
    [ name |-> PyStr(<<"c", " ">>), features |-> PyList(<< <<"z">> >>),
      published |-> PyBool(FALSE), id |-> PyInt(9) ]

UpdateBodies == {PatchPricing, PatchName}

TargetIds == {1, 2}

\* A record in a legacy shape, as an older writer left it.
LegacyDict ==
    [ id |-> PyStr(<<"2">>), title |-> PyStr(<<"o">>), cost |-> PyStr(<<"f", "r", "e", "e">>),
      keywords |-> PyStr(<<"k">>), published |-> PyStr(<<"N", "o">>) ]

LegacyFile ==
    [kind |-> "list", items |-> <<NonDictItem, DictItem(LegacyDict)>>]

\* A record whose id int() cannot convert.
BadIdFile ==
    [kind |-> "list", items |-> <<DictItem([id |-> PyStr(<<"a">>)])>>]

InitFiles == {Absent, LegacyFile, BadIdFile}

Request(op, tool_id, body) == [op |-> op, tool_id |-> tool_id, body |-> body]

NoRequest == Request("none", 0, EmptyDict)

Requests ==
    {Request("create", 0, b) : b \in CreateBodies}
    \cup {Request("update", i, b) : i \in TargetIds, b \in UpdateBodies}
    \cup {Request("delete", i, EmptyDict) : i \in TargetIds}
    \cup {Request("admin_list", 0, EmptyDict)}

\* Raw records: every combination of a choice for the id, for the name and its
\* legacy alias, for the tags and for the published flag.
RawIds ==
    {EmptyDict}
    \cup {[id |-> v] : v \in {PyNone, PyInt(0), PyInt(7), PyBool(TRUE), PyStr(<<>>),
                              PyStr(<<" ", "7">>), PyStr(<<"a">>), PyStr(<<"1", ".", "5">>),
                              PyList(<<>>), PyList(<< <<"1">> >>)}}

RawNames ==
    { EmptyDict,
      [name |-> PyStr(<<" ", "a", " ">>)],
      [title |-> PyStr(<<"o">>)],
      [name |-> PyStr(<<>>), title |-> PyInt(5)],
      [name |-> PyNone, description |-> PyList(<< <<"d">> >>), cost |-> PyBool(FALSE)] }

RawTags ==
    { EmptyDict,
      [tags |-> PyStr(<<"x", ",", " ", ",", "y", " ">>)],
      [keywords |-> PyList(<< <<" ", "k">>, <<" ">> >>)],
      [tags |-> PyInt(3), features |-> PyStr(<<"T">>)] }

RawPublished ==
    {EmptyDict}
    \cup {[published |-> v] : v \in {PyNone, PyBool(FALSE), PyStr(<<" ", "O", "F", "F">>),
                                     PyStr(<<"x">>), PyStr(<<>>), PyInt(0)}}

RawRecords ==
    {DictMerge(DictMerge(a, b), DictMerge(c, d)) :
        a \in RawIds, b \in RawNames, c \in RawTags, d \in RawPublished}

\* A backing file whose list holds one raw record after an item that is no dict.
RawFiles == {[kind |-> "list", items |-> <<NonDictItem, DictItem(r)>>] : r \in RawRecords}

\* Requests of writers served in one behaviour under fair scheduling.
MaxWriters == 2

\* One request of each writer.
WriteRequests ==
    { Request("create", 0, BodyA),
      Request("update", 2, PatchPricing),
      Request("delete", 2, EmptyDict) }

\* A store as save_tools writes it: a published record with id 1 and an
\* unpublished one with id 2.
CatalogFile ==
    JsonList(<<normalize_tool(DictMerge(BodyA, [id |-> PyInt(1)])), normalize_tool(LegacyDict)>>)

\* The initial files of the specification with every endpoint: an empty or
\* half-written file, a JSON object, a file of bytes that are no UTF-8 text and
\* a store of two records besides the others.
ApiInitFiles == InitFiles \cup {Malformed, NotList, Undecodable, CatalogFile}

CategoryQuery ==
    [search |-> PyStr(<<"A">>), category |-> PyStr(<<"n">>), pricing |-> PyStr(<<>>)]

ListQueries == {NoQuery, CategoryQuery}

\* GET /api/tools/<segment>?ids=<ids>
PathRequest(segment, ids) ==
    Request("path", 0, [segment |-> PyStr(segment), ids |-> PyStr(ids)])

IdSegments == {<<"1">>, <<"2">>}

\* Two ids, four ids, an entry that is no integer.
CompareQueries ==
    { <<"2", ",", " ", "3">>, <<"1", ",", "2", ",", "3", ",", "1">>, <<"1", ",", "a">> }

ApiRequests ==
    Requests
    \cup {Request("list", 0, q) : q \in ListQueries}
    \cup {Request("admin_list_published", 0, [published |-> PyBool(b)]) : b \in BOOLEAN}
    \cup {PathRequest(seg, <<>>) : seg \in IdSegments}
    \cup {PathRequest(Compare, ids) : ids \in CompareQueries}

\* A response: the request's operation, how the handler ended ("done", "failed"
\* by an exception, "crashed"), the position it had reached, the HTTP status code
\* and the records of the body.
Response(op, status, at, code, out) ==
    [op |-> op, status |-> status, at |-> at, code |-> code, out |-> out]

NoResponse == Response("none", "none", "idle", 0, <<>>)

(***************************************************************************)
(* State.                                                                  *)
(***************************************************************************)
VARIABLES
    file,       \* the content of the file DATA_FILE names
    tmp,        \* worker -> the content of its temporary file
    lock,       \* the worker holding the flock on LOCK_FILE, or Free
    started,    \* the number of requests started so far
    issued,     \* the ids that committed creates have assigned so far
    removed,    \* the ids that committed deletes have removed so far
    req,        \* worker -> the request it serves
    resp,       \* worker -> the response to its last request
    pc,         \* worker -> its position in the handler
    opened,     \* worker -> the content DATA_FILE had when the worker opened it
    linked,     \* worker -> DATA_FILE still names the file the worker opened
    tools,      \* worker -> the result of load_tools()
    normalized, \* worker -> save_tools' list `normalized`
    result      \* worker -> new_tool / updated_tool, the record the handler returns

vars ==
    <<file, tmp, lock, started, issued, removed, req, resp, pc, opened, linked, tools,
      normalized, result>>

locals == <<opened, linked, tools, normalized, result>>

Init ==
    /\ file \in InitFiles
    /\ tmp = [w \in Workers |-> Absent]
    /\ lock = Free
    /\ started = 0
    /\ issued = {}
    /\ removed = {}
    /\ req = [w \in Workers |-> NoRequest]
    /\ resp = [w \in Workers |-> NoResponse]
    /\ pc = [w \in Workers |-> "idle"]
    /\ opened = [w \in Workers |-> Absent]
    /\ linked = [w \in Workers |-> FALSE]
    /\ tools = [w \in Workers |-> <<>>]
    /\ normalized = [w \in Workers |-> <<>>]
    /\ result = [w \in Workers |-> EmptyDict]

\* The handler of worker w returns or raises: its response is recorded and the
\* worker is idle again.  A temporary file it leaves behind is never opened
\* again and is not followed further.
Respond(w, status, code, out) ==
    /\ resp' = [resp EXCEPT ![w] = Response(req[w].op, status, pc[w], code, out)]
    /\ tmp' = [tmp EXCEPT ![w] = Absent]
    /\ req' = [req EXCEPT ![w] = NoRequest]
    /\ pc' = [pc EXCEPT ![w] = "idle"]
    /\ opened' = [opened EXCEPT ![w] = Absent]
    /\ linked' = [linked EXCEPT ![w] = FALSE]
    /\ tools' = [tools EXCEPT ![w] = <<>>]
    /\ normalized' = [normalized EXCEPT ![w] = <<>>]
    /\ result' = [result EXCEPT ![w] = EmptyDict]

\* A request arrives at an idle worker, whose handler opens DATA_FILE
\* (read_tools_file: exists(), open()).
Begin(w) ==
    /\ pc[w] = "idle"
    /\ \A v \in Workers : v < w => pc[v] # "idle"
    /\ started < MaxRequests
    /\ started' = started + 1
    /\ \E r \in Requests : req' = [req EXCEPT ![w] = r]
    /\ resp' = [resp EXCEPT ![w] = NoResponse]
    /\ opened' = [opened EXCEPT ![w] = file]
    /\ linked' = [linked EXCEPT ![w] = file.kind # "absent"]
    /\ pc' = [pc EXCEPT ![w] = "opened"]
    /\ UNCHANGED <<file, tmp, lock, issued, removed, tools, normalized, result>>

\* What json.load reads through the worker's descriptor: the file it opened, which
\* is DATA_FILE's file for as long as no rename has replaced it.
ReadContent(w) == IF linked[w] THEN file ELSE opened[w]

\* load_tools() raises at this point (read_tools_file on undecodable bytes,
\* normalize_tool's int() on a bad id).
load_raises(content) ==
    IF read_raises(content) THEN TRUE
    ELSE \E k \in 1..Len(read_tools_file(content)) :
            /\ read_tools_file(content)[k].isdict
            /\ normalize_raises(read_tools_file(content)[k].d)

\* The handler's load_tools() raises: the request fails with 500.
LoadFault(w) ==
    /\ pc[w] = "opened"
    /\ load_raises(ReadContent(w))
    /\ Respond(w, "failed", 500, <<>>)
    /\ UNCHANGED <<file, lock, started, issued, removed>>

\* The handler from load_tools() up to save_tools' `normalized`, the next step
\* being the lock.
ToSave(w, loaded, towrite, ret) ==
    /\ tools' = [tools EXCEPT ![w] = loaded]
    /\ normalized' = [normalized EXCEPT ![w] = SaveNormalized(towrite)]
    /\ result' = [result EXCEPT ![w] = ret]
    /\ pc' = [pc EXCEPT ![w] = "save"]
    /\ UNCHANGED <<file, tmp, lock, started, issued, removed, req, resp, opened, linked>>

admin_create_tool(w) ==
    /\ pc[w] = "opened"
    /\ req[w].op = "create"
    /\ ~load_raises(ReadContent(w))
    /\ LET loaded == load_tools(ReadContent(w))
           towrite == CreateTools(loaded, req[w].body)
       IN ToSave(w, loaded, towrite, towrite[Len(towrite)])

admin_update_tool(w) ==
    /\ pc[w] = "opened"
    /\ req[w].op = "update"
    /\ ~load_raises(ReadContent(w))
    /\ LET loaded == load_tools(ReadContent(w))
           index == FindIndex(loaded, req[w].tool_id)
       IN IF index # 0
          THEN LET towrite == UpdateTools(loaded, req[w].tool_id, req[w].body)
               IN ToSave(w, loaded, towrite, towrite[index])
          ELSE /\ Respond(w, "done", 404, <<>>)
               /\ UNCHANGED <<file, lock, started, issued, removed>>

\* Variant: the delete writes the remaining records back without the check
\* that one was removed.
admin_delete_tool_unchecked(w) ==
    /\ pc[w] = "opened"
    /\ req[w].op = "delete"
    /\ ~load_raises(ReadContent(w))
    /\ LET loaded == load_tools(ReadContent(w))
           remaining == Remaining(loaded, req[w].tool_id)
       IN ToSave(w, loaded, remaining, EmptyDict)

admin_delete_tool(w) ==
    /\ pc[w] = "opened"
    /\ req[w].op = "delete"
    /\ ~load_raises(ReadContent(w))
    /\ LET loaded == load_tools(ReadContent(w))
           remaining == Remaining(loaded, req[w].tool_id)
       IN IF Len(remaining) = Len(loaded)
          THEN /\ Respond(w, "done", 404, <<>>)
               /\ UNCHANGED <<file, lock, started, issued, removed>>
          ELSE ToSave(w, loaded, remaining, EmptyDict)

\* GET /api/admin/tools without the published filter.
admin_get_tools(w) ==
    /\ pc[w] = "opened"
    /\ req[w].op = "admin_list"
    /\ ~load_raises(ReadContent(w))
    /\ Respond(w, "done", 200, load_tools(ReadContent(w)))
    /\ UNCHANGED <<file, lock, started, issued, removed>>

\* Variant: flock returns without waiting for the holder (a shared lock).
acquire_shared(w) ==
    /\ pc[w] = "save"
    /\ lock' = w
    /\ pc' = [pc EXCEPT ![w] = "locked"]
    /\ UNCHANGED <<file, tmp, started, issued, removed, req, resp, locals>>

\* with acquire_file_lock(LOCK_FILE): flock(LOCK_EX) returns once the lock is free.
acquire_file_lock(w) ==
    /\ pc[w] = "save"
    /\ lock = Free
    /\ lock' = w
    /\ pc' = [pc EXCEPT ![w] = "locked"]
    /\ UNCHANGED <<file, tmp, started, issued, removed, req, resp, locals>>

\* Variant: the writer opens DATA_FILE itself for writing, which truncates it.
CreateTempInPlace(w) ==
    /\ pc[w] = "locked"
    /\ file' = Malformed
    /\ pc' = [pc EXCEPT ![w] = "tmp"]
    /\ UNCHANGED <<tmp, lock, started, issued, removed, req, resp, locals>>

\* NamedTemporaryFile("w", dir=..., delete=False): a new, empty file.
CreateTemp(w) ==
    /\ pc[w] = "locked"
    /\ tmp' = [tmp EXCEPT ![w] = Malformed]
    /\ pc' = [pc EXCEPT ![w] = "tmp"]
    /\ UNCHANGED <<file, lock, started, issued, removed, req, resp, locals>>

\* Variant: json.dump writes to DATA_FILE as well as to the temporary file.
StageInPlace(w) ==
    /\ pc[w] = "tmp"
    /\ tmp' = [tmp EXCEPT ![w] = JsonList(normalized[w])]
    /\ file' = JsonList(normalized[w])
    /\ pc' = [pc EXCEPT ![w] = "staged"]
    /\ UNCHANGED <<lock, started, issued, removed, req, resp, locals>>

\* json.dump, flush, fsync and close of the temporary file.
Stage(w) ==
    /\ pc[w] = "tmp"
    /\ tmp' = [tmp EXCEPT ![w] = JsonList(normalized[w])]
    /\ pc' = [pc EXCEPT ![w] = "staged"]
    /\ UNCHANGED <<file, lock, started, issued, removed, req, resp, locals>>

\* os.replace(tmp.name, DATA_FILE): DATA_FILE names the temporary file's content;
\* the file it named before lives on for the descriptors open on it, and the
\* temporary name is gone.
Replace(w) ==
    /\ pc[w] = "staged"
    /\ file' = tmp[w]
    /\ tmp' = [tmp EXCEPT ![w] = Absent]
    /\ linked' = [v \in Workers |-> FALSE]
    /\ issued' = IF req[w].op = "create" THEN issued \cup {result[w].id.i} ELSE issued
    /\ removed' = IF req[w].op = "delete" THEN removed \cup {req[w].tool_id} ELSE removed
    /\ pc' = [pc EXCEPT ![w] = "replaced"]
    /\ UNCHANGED <<lock, started, req, resp, opened, tools, normalized, result>>

\* What the handler returns after save_tools.
Returned(w) ==
    CASE req[w].op = "delete" -> [code |-> 200, out |-> <<>>]
      [] req[w].op = "create" -> [code |-> 201, out |-> <<normalize_tool(result[w])>>]
      [] req[w].op = "update" -> [code |-> 200, out |-> <<normalize_tool(result[w])>>]

\* Variant: the handler returns without the unlock and the close of the lock
\* file's descriptor.
ReturnWithoutRelease(w) ==
    /\ pc[w] = "replaced"
    /\ Respond(w, "done", Returned(w).code, Returned(w).out)
    /\ UNCHANGED <<file, lock, started, issued, removed>>

\* The lock's finally clause (flock(LOCK_UN), close) and the handler's return.
Release(w) ==
    /\ pc[w] = "replaced"
    /\ lock' = Free
    /\ Respond(w, "done", Returned(w).code, Returned(w).out)
    /\ UNCHANGED <<file, started, issued, removed>>

\* Variant: the lock is released on the normal path only (no finally clause).
WriteFaultKeepsLock(w) ==
    /\ pc[w] \in {"locked", "tmp", "staged"}
    /\ Respond(w, "failed", 500, <<>>)
    /\ UNCHANGED <<file, lock, started, issued, removed>>

\* Creating or writing the temporary file, or the rename, raises OSError: the
\* finally clause releases the lock and the error reaches the caller.
WriteFault(w) ==
    /\ pc[w] \in {"locked", "tmp", "staged"}
    /\ lock' = Free
    /\ Respond(w, "failed", 500, <<>>)
    /\ UNCHANGED <<file, started, issued, removed>>

\* The worker process is killed: the kernel closes its descriptors, which
\* drops its flock.
Crash(w) ==
    /\ pc[w] # "idle"
    /\ lock' = IF lock = w THEN Free ELSE lock
    /\ Respond(w, "crashed", 0, <<>>)
    /\ UNCHANGED <<file, started, issued, removed>>

Next ==
    \E w \in Workers :
        \/ Begin(w)
        \/ LoadFault(w)
        \/ admin_create_tool(w)
        \/ admin_update_tool(w)
        \/ admin_delete_tool(w)
        \/ admin_get_tools(w)
        \/ acquire_file_lock(w)
        \/ CreateTemp(w)
        \/ Stage(w)
        \/ Replace(w)
        \/ Release(w)
        \/ WriteFault(w)
        \/ Crash(w)

Spec == Init /\ [][Next]_vars

\* The same handlers with the requests served one at a time: a request starts
\* only when no other is in progress.
SeqBegin(w) ==
    /\ \A v \in Workers : pc[v] = "idle"
    /\ Begin(w)

SeqNext ==
    \E w \in Workers :
        \/ SeqBegin(w)
        \/ LoadFault(w)
        \/ admin_create_tool(w)
        \/ admin_update_tool(w)
        \/ admin_delete_tool(w)
        \/ admin_get_tools(w)
        \/ acquire_file_lock(w)
        \/ CreateTemp(w)
        \/ Stage(w)
        \/ Replace(w)
        \/ Release(w)
        \/ WriteFault(w)
        \/ Crash(w)

SeqSpec == Init /\ [][SeqNext]_vars

\* The request fails the validation of its route's parameters: the path
\* parameter tool_id of get_tool is declared int.
Unprocessable(r) ==
    /\ r.op = "path"
    /\ Route(r.body.segment.s) = "get_tool"
    /\ ~StrIsInt(r.body.segment.s)

ApiInit ==
    /\ file \in ApiInitFiles
    /\ tmp = [w \in Workers |-> Absent]
    /\ lock = Free
    /\ started = 0
    /\ issued = {}
    /\ removed = {}
    /\ req = [w \in Workers |-> NoRequest]
    /\ resp = [w \in Workers |-> NoResponse]
    /\ pc = [w \in Workers |-> "idle"]
    /\ opened = [w \in Workers |-> Absent]
    /\ linked = [w \in Workers |-> FALSE]
    /\ tools = [w \in Workers |-> <<>>]
    /\ normalized = [w \in Workers |-> <<>>]
    /\ result = [w \in Workers |-> EmptyDict]

\* A request to any endpoint arrives while no other is in progress and is
\* routed and validated: its handler starts and opens DATA_FILE, or the
\* validation of the route's parameters fails and no handler runs.
ApiBegin(w) ==
    /\ \A v \in Workers : pc[v] = "idle"
    /\ \A v \in Workers : v >= w
    /\ started < MaxRequests
    /\ started' = started + 1
    /\ \E r \in ApiRequests :
          /\ req' = [req EXCEPT ![w] = r]
          /\ IF Unprocessable(r)
             THEN /\ pc' = [pc EXCEPT ![w] = "invalid"]
                  /\ UNCHANGED <<opened, linked>>
             ELSE /\ pc' = [pc EXCEPT ![w] = "opened"]
                  /\ opened' = [opened EXCEPT ![w] = file]
                  /\ linked' = [linked EXCEPT ![w] = file.kind # "absent"]
    /\ resp' = [resp EXCEPT ![w] = NoResponse]
    /\ UNCHANGED <<file, tmp, lock, issued, removed, tools, normalized, result>>

\* The framework answers the request that failed validation with 422.
RequestValidationError(w) ==
    /\ pc[w] = "invalid"
    /\ Respond(w, "done", 422, <<>>)
    /\ UNCHANGED <<file, lock, started, issued, removed>>

\* GET /api/tools
get_tools(w) ==
    /\ pc[w] = "opened"
    /\ req[w].op = "list"
    /\ ~load_raises(ReadContent(w))
    /\ Respond(w, "done", 200,
               get_tools_filter(Published(load_tools(ReadContent(w))), req[w].body))
    /\ UNCHANGED <<file, lock, started, issued, removed>>

\* GET /api/tools/{tool_id}: every request the router hands to this route and
\* whose tool_id is an int.
get_tool(w) ==
    /\ pc[w] = "opened"
    /\ req[w].op = "path"
    /\ Route(req[w].body.segment.s) = "get_tool"
    /\ ~load_raises(ReadContent(w))
    /\ LET found == Lookup(load_tools(ReadContent(w)), StrToInt(req[w].body.segment.s))
       IN IF found = <<>> THEN Respond(w, "done", 404, <<>>)
          ELSE Respond(w, "done", 200, found)
    /\ UNCHANGED <<file, lock, started, issued, removed>>

\* GET /api/admin/tools?published=<bool>
admin_get_tools_published(w) ==
    /\ pc[w] = "opened"
    /\ req[w].op = "admin_list_published"
    /\ ~load_raises(ReadContent(w))
    /\ Respond(w, "done", 200,
               PublishedIs(load_tools(ReadContent(w)), req[w].body.published))
    /\ UNCHANGED <<file, lock, started, issued, removed>>

\* Every endpoint of the store, the requests served one at a time.  No request
\* reaches compare_tools: the router hands GET /api/tools/compare to get_tool,
\* whose route is registered first (Route).
ApiNext ==
    \E w \in Workers :
        \/ ApiBegin(w)
        \/ RequestValidationError(w)
        \/ LoadFault(w)
        \/ get_tools(w)
        \/ get_tool(w)
        \/ admin_get_tools(w)
        \/ admin_get_tools_published(w)
        \/ admin_create_tool(w)
        \/ admin_update_tool(w)
        \/ admin_delete_tool(w)
        \/ acquire_file_lock(w)
        \/ CreateTemp(w)
        \/ Stage(w)
        \/ Replace(w)
        \/ Release(w)
        \/ WriteFault(w)
        \/ Crash(w)

ApiSpec == ApiInit /\ [][ApiNext]_vars

\* The loader and the writer on their own, applied to a backing file that holds
\* any raw record: load_tools(), then save_tools() of what was loaded, then
\* load_tools() again.
RawInit ==
    /\ file \in RawFiles
    /\ tmp = [w \in Workers |-> Absent]
    /\ lock = Free
    /\ started = 0
    /\ issued = {}
    /\ removed = {}
    /\ req = [w \in Workers |-> NoRequest]
    /\ resp = [w \in Workers |-> NoResponse]
    /\ pc = [w \in Workers |-> "idle"]
    /\ opened = [w \in Workers |-> Absent]
    /\ linked = [w \in Workers |-> FALSE]
    /\ tools = [w \in Workers |-> <<>>]
    /\ normalized = [w \in Workers |-> <<>>]
    /\ result = [w \in Workers |-> EmptyDict]

\* tools = load_tools() returns.
LoadReturns(w) ==
    /\ pc[w] = "idle"
    /\ \A v \in Workers : v >= w
    /\ ~load_raises(file)
    /\ tools' = [tools EXCEPT ![w] = load_tools(file)]
    /\ pc' = [pc EXCEPT ![w] = "loaded"]
    /\ UNCHANGED <<file, tmp, lock, started, issued, removed, req, resp, opened, linked,
                   normalized, result>>

\* load_tools() raises.
LoadRaises(w) ==
    /\ pc[w] = "idle"
    /\ \A v \in Workers : v >= w
    /\ load_raises(file)
    /\ resp' = [resp EXCEPT ![w] = Response("load", "failed", "idle", 0, <<>>)]
    /\ pc' = [pc EXCEPT ![w] = "raised"]
    /\ UNCHANGED <<file, tmp, lock, started, issued, removed, req, opened, linked, tools,
                   normalized, result>>

\* save_tools(tools): normalized = [normalize_tool(tool) for tool in tools]
SaveNormalizes(w) ==
    /\ pc[w] = "loaded"
    /\ normalized' = [normalized EXCEPT ![w] = SaveNormalized(tools[w])]
    /\ pc' = [pc EXCEPT ![w] = "save"]
    /\ UNCHANGED <<file, tmp, lock, started, issued, removed, req, resp, opened, linked,
                   tools, result>>

\* save_tools(tools): the lock, the temporary file, os.replace and the release.
SaveWrites(w) ==
    /\ pc[w] = "save"
    /\ lock = Free
    /\ file' = JsonList(normalized[w])
    /\ pc' = [pc EXCEPT ![w] = "saved"]
    /\ UNCHANGED <<tmp, lock, started, issued, removed, req, resp, opened, linked, tools,
                   normalized, result>>

\* load_tools() after the write.
LoadAgain(w) ==
    /\ pc[w] = "saved"
    /\ ~load_raises(file)
    /\ resp' = [resp EXCEPT ![w] = Response("load", "done", "saved", 0, load_tools(file))]
    /\ pc' = [pc EXCEPT ![w] = "reloaded"]
    /\ UNCHANGED <<file, tmp, lock, started, issued, removed, req, opened, linked, tools,
                   normalized, result>>

RawNext ==
    \E w \in Workers :
        \/ LoadReturns(w)
        \/ LoadRaises(w)
        \/ SaveNormalizes(w)
        \/ SaveWrites(w)
        \/ LoadAgain(w)

RawSpec == RawInit /\ [][RawNext]_vars

\* A request of a writer arrives at an idle worker, whose handler opens DATA_FILE.
WriterBegin(w) ==
    /\ pc[w] = "idle"
    /\ \A v \in Workers : v < w => pc[v] # "idle"
    /\ started < MaxWriters
    /\ started' = started + 1
    /\ \E r \in WriteRequests : req' = [req EXCEPT ![w] = r]
    /\ resp' = [resp EXCEPT ![w] = NoResponse]
    /\ opened' = [opened EXCEPT ![w] = file]
    /\ linked' = [linked EXCEPT ![w] = file.kind # "absent"]
    /\ pc' = [pc EXCEPT ![w] = "opened"]
    /\ UNCHANGED <<file, tmp, lock, issued, removed, tools, normalized, result>>

\* The steps of worker w's handler once its request has arrived, with no process
\* killed and no I/O error inside save_tools.
Proceed(w) ==
    \/ LoadFault(w)
    \/ admin_create_tool(w)
    \/ admin_update_tool(w)
    \/ admin_delete_tool(w)
    \/ acquire_file_lock(w)
    \/ CreateTemp(w)
    \/ Stage(w)
    \/ Replace(w)
    \/ Release(w)

FairNext == \E w \in Workers : WriterBegin(w) \/ Proceed(w)

\* The steps of save_tools from flock() on.
Write(w) ==
    \/ acquire_file_lock(w)
    \/ CreateTemp(w)
    \/ Stage(w)
    \/ Replace(w)
    \/ Release(w)

\* The concurrent workers under fair scheduling: a worker process that is inside
\* save_tools and can take its next step takes it eventually; a handler waiting
\* in flock() can take its step when the lock is free.
FairSpec == Init /\ [][FairNext]_vars /\ \A w \in Workers : WF_vars(Write(w))

(***************************************************************************)
(* Properties.                                                             *)
(***************************************************************************)
Mutating(w) == req[w].op \in {"create", "update", "delete"}

\* The step is worker w's rename.
Commits(w) == pc[w] = "staged" /\ pc'[w] = "replaced"

\* The step is the return of worker w's handler with the given status.
Ends(w, status) == pc[w] # "idle" /\ pc'[w] = "idle" /\ resp'[w].status = status

\* The in-memory mutation of a request, applied to a loaded collection.
ApplyOp(r, loaded) ==
    CASE r.op = "create" -> CreateTools(loaded, r.body)
      [] r.op = "update" -> IF FindIndex(loaded, r.tool_id) # 0
                            THEN UpdateTools(loaded, r.tool_id, r.body)
                            ELSE loaded
      [] r.op = "delete" -> Remaining(loaded, r.tool_id)
      [] OTHER           -> loaded

DistinctIds(records) ==
    \A j, k \in 1..Len(records) : j # k => records[j].id.i # records[k].id.i

Paid == <<"p", "a", "i", "d">>

\* C1: two creates that run concurrently against an empty store (the only two
\* requests so far, one on each worker) never both return id 1.
C1_ConcurrentCreatesGetDistinctIds ==
    ~ ( /\ started = 2
        /\ \A w \in Workers :
              /\ resp[w].op = "create"
              /\ resp[w].status = "done"
              /\ resp[w].out[1].id.i = 1 )

\* C2: a mutating operation holds the lock from before it reads the backing file
\* until its rename, and no other writer's rename happens between its read and
\* its own rename.
C2_LockHeldFromReadToCommit ==
    /\ [](\A w \in Workers :
            (Mutating(w) /\ pc[w] \in {"opened", "save", "locked", "tmp", "staged"})
            => lock = w)
    /\ [][\A w, v \in Workers :
            (w # v /\ Mutating(w)
                 /\ pc[w] \in {"opened", "save", "locked", "tmp", "staged"})
            => ~Commits(v)]_vars

\* C3: no update is lost: as long as no request has failed or crashed, every
\* rename installs the writer's operation applied to the content the backing file
\* holds at that rename, so that the final content is the operations applied one
\* after another in lock order.
C3_NoLostUpdate ==
    [][\A w \in Workers :
          (Commits(w) /\ \A v \in Workers : resp[v].status \notin {"failed", "crashed"}) =>
              file' = JsonList(SaveNormalized(ApplyOp(req[w], load_tools(file))))]_vars

\* C4: the records a reader can observe in the backing file, now or through a
\* descriptor it holds, have pairwise distinct ids.
C4_IdsUnique ==
    /\ ~load_raises(file) => DistinctIds(load_tools(file))
    /\ \A w \in Workers :
          (pc[w] = "opened" /\ ~load_raises(ReadContent(w)))
          => DistinctIds(load_tools(ReadContent(w)))

C4_Witness ==
    /\ ~load_raises(file)
    /\ Len(load_tools(file)) >= 2
    /\ \A w \in Workers : resp[w].op = "create" /\ resp[w].status = "done"

\* C5: with the requests served one at a time, a create appends one record whose
\* id is the largest id in the store just before plus 1, or 1 when the store is
\* empty; that id is in no record of the store, it is the id the response
\* carries, and while nothing has been deleted it was never assigned before.
C5_SequentialIds ==
    [][\A w \in Workers :
          /\ (Commits(w) /\ req[w].op = "create") =>
                LET before == load_tools(file)
                    after == load_tools(file')
                    new == after[Len(after)].id.i
                IN /\ Len(after) = Len(before) + 1
                   /\ \A k \in 1..Len(before) : after[k] = before[k]
                   /\ IF before = <<>> THEN new = 1
                      ELSE /\ \E k \in 1..Len(before) : new = before[k].id.i + 1
                           /\ \A k \in 1..Len(before) : new > before[k].id.i
                   /\ removed = {} => new \notin issued
          /\ (Ends(w, "done") /\ req[w].op = "create") =>
                LET stored == load_tools(file)
                IN resp'[w].out = <<stored[Len(stored)]>>]_vars

C5_Witness ==
    /\ Cardinality(issued) >= 2
    /\ removed = {}
    /\ \E w \in Workers :
          /\ resp[w].op = "create"
          /\ resp[w].status = "done"
          /\ resp[w].out[1].id.i = 2

\* C6 as stated: create never assigns an id that an earlier create has assigned,
\* not even after the record that held it was deleted.
C6_IdsNeverReassigned ==
    [][\A w \in Workers :
          (Commits(w) /\ req[w].op = "create") => result[w].id.i \notin issued]_vars

\* C6 as amended: with the requests served one at a time, create never assigns an
\* id that a record in the store holds, and it assigns an id that an earlier
\* create assigned only after a delete has removed the record with that id.
C6_IdsReassignedOnlyAfterDelete ==
    [][\A w \in Workers :
          (Commits(w) /\ req[w].op = "create") =>
              LET new == load_tools(file')[Len(load_tools(file'))].id.i
              IN /\ \A k \in 1..Len(load_tools(file)) : load_tools(file)[k].id.i # new
                 /\ new \in issued => new \in removed]_vars

C6_Witness ==
    \E w \in Workers :
        /\ resp[w].op = "create"
        /\ resp[w].status = "done"
        /\ resp[w].out[1].id.i \in removed
        /\ \E k \in 1..Len(load_tools(file)) : load_tools(file)[k] = resp[w].out[1]

\* C7: an update overwrites exactly the fields its body supplies: the store it
\* commits has the records the update read, in the same order, every record
\* other than the target identical, and the target identical in its id and in
\* every field the body does not supply.
C7_PartialUpdateMerge ==
    [][\A w \in Workers :
          (Commits(w) /\ req[w].op = "update") =>
              LET pre == tools[w]
                  post == load_tools(file')
                  supplied == (DOMAIN req[w].body) \cap UpdateKeys
                  given == normalize_tool([f \in supplied |-> req[w].body[f]])
              IN /\ Len(post) = Len(pre)
                 /\ \A k \in 1..Len(pre) :
                       IF pre[k].id.i # req[w].tool_id
                       THEN post[k] = pre[k]
                       ELSE /\ DOMAIN post[k] = DOMAIN pre[k]
                            /\ post[k].id = pre[k].id
                            /\ \A f \in (DOMAIN pre[k]) \ supplied : post[k][f] = pre[k][f]
                            /\ \A f \in supplied : post[k][f] = given[f]]_vars

C7_Witness ==
    \E w \in Workers :
        /\ resp[w].op = "update"
        /\ resp[w].code = 200
        /\ resp[w].out[1].pricing.s = Paid
        /\ resp[w].out[1].name.s = <<"o">>
        /\ resp[w].out[1].id.i = 2
        /\ load_tools(file) = resp[w].out

\* C8: the backing file changes at a rename only, to the content staged in the
\* renaming writer's temporary file; a writer that is interrupted between staging
\* and rename leaves the backing file as it was.
C8_RenameIsSoleCommit ==
    [][/\ file' # file => \E w \in Workers : Commits(w) /\ file' = tmp[w]
       /\ \A w \in Workers :
             (pc[w] \in {"tmp", "staged"} /\ (Ends(w, "crashed") \/ Ends(w, "failed")))
             => file' = file]_vars

C8_Witness ==
    \E w \in Workers :
        /\ resp[w].op = "create"
        /\ resp[w].status = "crashed"
        /\ resp[w].at = "staged"
        /\ started = 1
        /\ file = Absent

\* C9: a read takes no lock and returns the complete collection the backing file
\* held when the read opened it (the state before or after a concurrent write);
\* every content the backing file gets is a writer's complete list.
C9_NoTornRead ==
    [][/\ \A w \in Workers :
             (req[w].op = "admin_list" /\ Ends(w, "done")) =>
                 /\ resp'[w].out = load_tools(opened[w])
                 /\ lock' = lock
       /\ file' # file => \E w \in Workers : file' = JsonList(normalized[w])]_vars

C9_Witness ==
    \E w, v \in Workers :
        /\ resp[w].op = "admin_list"
        /\ resp[w].status = "done"
        /\ pc[v] = "replaced"
        /\ lock = v
        /\ resp[w].out # load_tools(file)

\* C10: a failure of staging or of the rename inside save_tools reaches the caller
\* as an error, with the lock released and the backing file unchanged.
C10_WriteFaultReleasesLock ==
    [][\A w \in Workers :
          (pc[w] \in {"locked", "tmp", "staged"} /\ Ends(w, "failed")) =>
              /\ resp'[w].code = 500
              /\ lock' = Free
              /\ file' = file]_vars

C10_Witness ==
    \E w \in Workers :
        /\ resp[w].status = "failed"
        /\ resp[w].at = "staged"
        /\ resp[w].op = "update"
        /\ lock = Free
        /\ file = LegacyFile

\* The handler of worker w has opened the backing file, which load_tools() reads
\* without raising.
Reads(w) == pc[w] = "opened" /\ ~load_raises(ReadContent(w))

\* The id the request of worker w names: the path parameter tool_id.
RequestedId(w) ==
    IF req[w].op = "path" THEN StrToInt(req[w].body.segment.s) ELSE req[w].tool_id

\* C11: an update or delete of an id that no record of the store has ends with
\* 404 and never reaches save_tools (no lock, no temporary file, no rename), and
\* the backing file is as it was; a get of such an id ends with 404.
C11_NotFoundLeavesStore ==
    [][\A w \in Workers :
          ( /\ Reads(w)
            /\ req[w].op \in {"update", "delete", "path"}
            /\ RequestedId(w) \notin Ids(load_tools(ReadContent(w)))
            /\ pc'[w] # pc[w] ) =>
              /\ pc'[w] = "idle"
              /\ resp'[w].status \in {"done", "crashed"}
              /\ resp'[w].status = "done" => resp'[w].code = 404 /\ resp'[w].out = <<>>
              /\ file' = file
              /\ tmp' = tmp
              /\ lock' = lock]_vars

C11_Witness ==
    /\ file = LegacyFile
    /\ started = 3
    /\ \E w \in Workers :
          /\ resp[w].op = "update"
          /\ resp[w].status = "done"
          /\ resp[w].code = 404
          /\ resp[w].at = "opened"

\* The records of a sequence whose published flag is b.
Flagged(records, b) ==
    {records[k] : k \in {j \in 1..Len(records) : (records[j].published.i = 1) = b}}

Range(seq) == {seq[k] : k \in 1..Len(seq)}

\* C12: whatever creates, updates and deletes came before, a record of the store
\* whose published flag is false is in no public list result and is in the admin
\* list result without a published filter, which is the whole store; the admin
\* list with a published filter is exactly the records with that flag, in store
\* order.
C12_Visibility ==
    [][\A w \in Workers :
          (Reads(w) /\ Ends(w, "done")) =>
              LET stored == load_tools(ReadContent(w))
                  out == resp'[w].out
              IN /\ req[w].op = "list" =>
                        /\ Range(out) \cap Flagged(stored, FALSE) = {}
                        /\ req[w].body = NoQuery => Range(out) = Flagged(stored, TRUE)
                 /\ req[w].op = "admin_list" =>
                        /\ out = stored
                        /\ Flagged(stored, FALSE) \subseteq Range(out)
                 /\ req[w].op = "admin_list_published" =>
                        /\ Range(out) = Flagged(stored, req[w].body.published.i = 1)
                        /\ Len(out) = Cardinality(Range(out))
                        /\ \A j, k \in 1..Len(out) :
                              j < k => \E a, b \in 1..Len(stored) :
                                          a < b /\ stored[a] = out[j] /\ stored[b] = out[k]]_vars

\* A public list that returns the published record of a store which also holds
\* an unpublished one, after a create.
C12_Witness ==
    /\ issued # {}
    /\ Flagged(load_tools(file), FALSE) # {}
    /\ \E w \in Workers :
          /\ resp[w].op = "list"
          /\ resp[w].status = "done"
          /\ Len(resp[w].out) = 1
          /\ Range(resp[w].out) = Flagged(load_tools(file), TRUE)

\* C13: normalize_tool returns a canonical record for every raw record and never
\* raises, so that load_tools() of a file holding any raw record never raises.
C13_NormalizeTotal == \A w \in Workers : pc[w] # "raised"

\* C15: normalizing a normalized record returns the same record (the list
\* save_tools normalizes again is the list load_tools() returned), and after
\* save_tools(load_tools()) a read returns what the read before it returned.
C15_NormalizeIdempotent ==
    \A w \in Workers :
        /\ pc[w] \in {"save", "saved", "reloaded"} =>
              /\ normalized[w] = tools[w]
              /\ \A k \in 1..Len(tools[w]) : normalize_tool(tools[w][k]) = tools[w][k]
        /\ pc[w] \in {"saved", "reloaded"} => load_tools(file) = tools[w]
        /\ pc[w] = "reloaded" => resp[w].out = tools[w]

\* The round trip of a record in a legacy shape: a string id, the name under its
\* alias, tags to split, a published word.
C15_Witness ==
    \E w \in Workers :
        /\ pc[w] = "reloaded"
        /\ Len(resp[w].out) = 1
        /\ resp[w].out[1].id = PyInt(7)
        /\ resp[w].out[1].name = PyStr(<<"o">>)
        /\ resp[w].out[1].tags = PyList(<< <<"x">>, <<"y">> >>)
        /\ resp[w].out[1].published = PyBool(FALSE)
        /\ file = JsonList(resp[w].out)

\* C14: when the backing file is absent, when its content is malformed (not a
\* JSON document, bytes that are no text included) and when its top level is no
\* list, the read returns the empty sequence without an error: the public list
\* and the admin list, with or without filters, end with 200 and no record.
C14_TolerantRead ==
    [][\A w \in Workers :
          ( /\ pc[w] = "opened"
            /\ req[w].op \in {"list", "admin_list", "admin_list_published"}
            /\ ReadContent(w).kind \in {"absent", "malformed", "undecodable", "notlist"}
            /\ pc'[w] # pc[w] ) =>
              /\ resp'[w].status \in {"done", "crashed"}
              /\ resp'[w].status = "done" => resp'[w].code = 200 /\ resp'[w].out = <<>>]_vars

\* C16: a request to GET /api/tools/compare with more than 3 ids or with an entry
\* that is no integer is answered with a validation fault and no records; with 1
\* to 3 integer ids it is answered with exactly the published records whose id is
\* in the list, in store order.
C16_CompareBounds ==
    [][\A w \in Workers :
          (req[w].op = "path" /\ req[w].body.segment.s = Compare /\ Ends(w, "done")) =>
              LET ids == req[w].body.ids.s IN
              IF compare_rejects(ids) # 0
              THEN resp'[w].code \in {400, 422} /\ resp'[w].out = <<>>
              ELSE ~load_raises(file) =>
                      /\ resp'[w].code = 200
                      /\ resp'[w].out = compare_tools(ids, load_tools(file)).out]_vars

\* The positions of a writer between the acquisition of the lock and its release.
InLock == {"locked", "tmp", "staged", "replaced"}

\* C17: at most one writer is between lock acquisition and lock release, and it
\* is the holder of the lock; a write goes through lock acquired, temporary file
\* created and staged, rename, lock released in this order (or leaves by an
\* exception or a crash), and a rename is the step of the holder of the lock.
C17_WriterExclusion ==
    /\ [](\A w, v \in Workers : (pc[w] \in InLock /\ pc[v] \in InLock) => w = v)
    /\ [](\A w \in Workers : pc[w] \in InLock <=> lock = w)
    /\ [][\A w \in Workers :
            /\ pc'[w] # pc[w] =>
                  \/ pc[w] = "save" /\ pc'[w] = "locked" /\ lock = Free /\ lock' = w
                  \/ pc[w] = "locked" /\ pc'[w] = "tmp"
                  \/ pc[w] = "tmp" /\ pc'[w] = "staged" /\ tmp'[w] = JsonList(normalized[w])
                  \/ pc[w] = "staged" /\ pc'[w] = "replaced"
                  \/ pc[w] = "replaced" /\ pc'[w] = "idle" /\ lock' = Free
                  \/ pc[w] \in InLock /\ pc'[w] = "idle" /\ lock' = Free
                        /\ resp'[w].status \in {"failed", "crashed"}
                  \/ pc[w] \notin InLock /\ pc'[w] \notin InLock
            /\ Commits(w) => lock = w /\ lock' = w /\ file' = tmp[w]
            /\ (pc'[w] = pc[w] /\ lock = w) => lock' = w]_vars

\* One writer has staged its file under the lock while the other waits for the
\* lock.
C17_Witness ==
    \E w, v \in Workers :
        /\ pc[w] = "staged"
        /\ lock = w
        /\ pc[v] = "save"
        /\ tmp[w] = JsonList(normalized[w])
        /\ tmp[w] # file

\* C18: under fair scheduling, with no crash and no I/O error, every writer that
\* waits for the lock acquires it, commits, releases it and returns (the four
\* steps in this order lead from the wait to the return); a waiting
\* writer is never blocked for good (the lock is free or its holder is a writer
\* inside save_tools, whose next step needs nothing); the lock is free whenever
\* no writer is between the acquisition and the release in save_tools.
C18_WriterProgress ==
    /\ \A w \in Workers :
          (pc[w] = "save") ~>
              (pc[w] = "idle" /\ resp[w].status = "done" /\ resp[w].at = "replaced")
    /\ [](\A w \in Workers :
             pc[w] = "save" => IF lock = Free THEN TRUE ELSE pc[lock] \in InLock)
    /\ []((\A w \in Workers : pc[w] \notin InLock) => lock = Free)

\* A writer waits for the lock that the other writer, which has committed, holds.
C18_Witness ==
    \E w, v \in Workers :
        /\ pc[w] = "save"
        /\ pc[v] = "replaced"
        /\ lock = v
        /\ Mutating(w)

\* The ids of the records of a sequence whose published flag is false.
HiddenIds(records) == {r.id.i : r \in Flagged(records, FALSE)}

\* C19: for a record of the store whose published flag is false, the public get
\* of its id ends with 404 and no compare answer holds it (nor does compare_tools
\* applied to the store select it), while the admin update and delete of the
\* same id go on to save_tools and end with 200.
C19_PublicLookupHidesUnpublished ==
    /\ [][\A w \in Workers :
            LET stored == load_tools(ReadContent(w)) IN
            /\ (Reads(w) /\ req[w].op = "path" /\ Ends(w, "done")) =>
                  /\ RequestedId(w) \in HiddenIds(stored) => resp'[w].code = 404
                  /\ Range(resp'[w].out) \cap Flagged(stored, FALSE) = {}
            /\ ( /\ Reads(w)
                 /\ req[w].op \in {"update", "delete"}
                 /\ RequestedId(w) \in HiddenIds(stored)
                 /\ pc'[w] # pc[w] ) =>
                  pc'[w] = "save" \/ resp'[w].status = "crashed"
            /\ (Mutating(w) /\ pc[w] = "replaced" /\ Ends(w, "done")) =>
                  resp'[w].code \in {200, 201}]_vars
    /\ [](~load_raises(file) =>
             \A ids \in CompareQueries :
                 Range(compare_tools(ids, load_tools(file)).out)
                     \cap Flagged(load_tools(file), FALSE) = {})

\* The public get of id 2 ends with 404 (the published record 1 is in the store,
\* so that the request was for 2) after an admin update of the unpublished
\* record 2 has succeeded.
C19_Witness ==
    /\ ~load_raises(file)
    /\ Len(load_tools(file)) = 2
    /\ load_tools(file)[1].id.i = 1
    /\ load_tools(file)[1].published = PyBool(TRUE)
    /\ load_tools(file)[2].id.i = 2
    /\ load_tools(file)[2].published = PyBool(FALSE)
    /\ load_tools(file)[2].pricing.s = Paid
    /\ \E w \in Workers :
          /\ resp[w].op = "path"
          /\ resp[w].status = "done"
          /\ resp[w].code = 404
          /\ resp[w].at = "opened"

\* C20: a create whose handler finds a backing file that is malformed or whose
\* top level is no list loads an empty store and assigns id 1; its rename installs
\* a list of exactly the new record, so that the content the file had is gone, and
\* the create ends with 201 and that record.
C20_CreateAfterReadFault ==
    [][\A w \in Workers :
          (req[w].op = "create" /\ opened[w].kind \in {"malformed", "notlist"}) =>
              LET new == normalize_tool(DictMerge(ToolCreate(req[w].body), [id |-> PyInt(1)]))
              IN /\ (pc[w] = "opened" /\ pc'[w] # pc[w]) =>
                        \/ pc'[w] = "save" /\ tools'[w] = <<>> /\ result'[w].id = PyInt(1)
                        \/ resp'[w].status = "crashed"
                 /\ Commits(w) =>
                        /\ file' = JsonList(<<new>>)
                        /\ file' # file
                        /\ load_tools(file') = <<new>>
                 /\ Ends(w, "done") =>
                        /\ resp'[w].code = 201
                        /\ resp'[w].out = <<new>>
                        /\ load_tools(file) = <<new>>]_vars

\* The rename of a create that found a JSON object in the backing file.
C20_Witness ==
    \E w \in Workers :
        /\ req[w].op = "create"
        /\ pc[w] = "replaced"
        /\ opened[w] = NotList
        /\ result[w].id = PyInt(1)
        /\ file.kind = "list"
        /\ Len(file.items) = 1
        /\ load_tools(file) = <<normalize_tool(result[w])>>

====
